---- MODULE Spec2Model ----
(***************************************************************************)
(* Model of the hardening adapter of QueEngine (crates/engine).            *)
(*                                                                         *)
(* Spec      : the settings guard (adapters/c2pa/settings.rs) driven by    *)
(*             the public operations of adapters/c2pa/engine/*.rs on       *)
(*             several threads.                                            *)
(* SpecAsset : asset materialisation (adapters/c2pa/asset_utils.rs).       *)
(***************************************************************************)
EXTENDS Integers, Sequences, FiniteSets, TLC

(***************************************************************************)
(* Bounds                                                                  *)
(***************************************************************************)
NumThreads == 2
MaxCalls == 2
MaxLen == 6
MaxLimit == 4

Threads == 1..NumThreads

(***************************************************************************)
(* The wrapped library's configuration.  A configuration, and a patch      *)
(* fragment, is a JSON object; it is modelled as a function from the keys  *)
(* the engine writes to a value, Unset standing for "key not present".     *)
(***************************************************************************)
Unset == "unset"

Keys == {"verify_after_sign", "fetch_remote_manifests", "verify_trust", "trust_anchors"}

EmptyObject == [k \in Keys |-> Unset]

\* constants.rs: BASE_SETTINGS = r#"{}"#, the JSON object without keys.
BASE_SETTINGS == EmptyObject

\* A JSON boolean as a value of the configuration.
JsonBool(b) == IF b THEN "true" ELSE "false"

\* json!({ key: value }): a fragment that sets one key.
Fragment(key, value) == [k \in Keys |-> IF k = key THEN value ELSE Unset]

(***************************************************************************)
(* Settings::from_string(json, "json") of the wrapped library, when it     *)
(* returns Ok.  apply_settings calls it once per fragment and relies on    *)
(* the fragments accumulating (sign_c2pa passes verify_after_sign, the     *)
(* trust fragments and verify_trust as separate fragments), so a call      *)
(* overlays the keys of its argument on the configuration in force and     *)
(* leaves every other key as it is.  The same function is what the code    *)
(* applies to BASE_SETTINGS.                                               *)
(***************************************************************************)
from_string(current, json) ==
  [k \in Keys |-> IF json[k] # Unset THEN json[k] ELSE current[k]]

\* Outcomes of a library call on a caller-supplied fragment and on the
\* constant BASE_SETTINGS.  Both return a Result the code handles; a fault
\* (unwind) of the library is taken only from caller-supplied input.
FragmentOutcomes == {"ok", "err", "panic"}
BaseOutcomes == {"ok", "err"}

(***************************************************************************)
(* EngineError values the guard produces, and the results of an operation. *)
(***************************************************************************)
NoRet == [kind |-> "None", msg |-> ""]
OkRet == [kind |-> "Ok", msg |-> ""]
Unwound == [kind |-> "Unwind", msg |-> ""]
ErrPoisoned == [kind |-> "Panic", msg |-> "settings mutex poisoned"]
ErrAdapterPanicked == [kind |-> "Panic", msg |-> "c2pa adapter panicked"]
ErrSettings == [kind |-> "C2pa", msg |-> "settings"]
ErrOperation == [kind |-> "C2pa", msg |-> "operation"]
ErrTrustUtf8 == [kind |-> "Config", msg |-> "trust anchors must be valid UTF-8"]

\* What the closure passed to with_c2pa_settings can do: return Ok, return
\* a typed error, or panic.
OperationOutcomes == {"ok", "err", "panic"}

\* The trust policies a caller can pass (TrustPolicyConfig abstracted to the
\* anchors field): none, PEM anchors, anchors that are not UTF-8.
Policies == {"none", "anchors", "bad_utf8"}

\* common.rs 10-52 build_trust_settings: the fragments of a policy.
build_trust_settings(policy) ==
  IF policy = "anchors" THEN <<Fragment("trust_anchors", "pem")>> ELSE <<>>

\* common.rs 14, 23: enable_trust.
enable_trust(policy) == policy = "anchors"

\* sign.rs 27-33, verify.rs 40-46: what is appended when a policy is given.
TrustTail(policy) ==
  IF policy = "none" THEN <<>>
  ELSE build_trust_settings(policy) \o <<Fragment("verify_trust", JsonBool(enable_trust(policy)))>>

\* sign.rs 23-33: the settings vector of sign_c2pa.
SignSettings(skip, policy) ==
  <<Fragment("verify_after_sign", JsonBool(~skip))>> \o TrustTail(policy)

\* verify.rs 27-46: the settings vector of verify_c2pa.
VerifySettings(allow_remote, policy) ==
  <<Fragment("fetch_remote_manifests", JsonBool(allow_remote))>> \o TrustTail(policy)

\* bmff.rs 13-15: the settings vector of generate_fragmented_bmff.
BmffSettings(skip) == <<Fragment("verify_after_sign", JsonBool(~skip))>>

(***************************************************************************)
(* State                                                                   *)
(***************************************************************************)
VARIABLES
  config,      \* the library's process-wide configuration
  lockHolder,  \* C2PA_SETTINGS_LOCK: 0 when free, else the holding thread
  poisoned,    \* the mutex's poison flag
  pc,          \* each thread's position
  settings,    \* the settings slice of the thread's with_c2pa_settings call
  idx,         \* apply_settings: index of the next fragment
  result,      \* the value of catch_unwind(f): "none", "ok", "err", "panic"
  restored,    \* the discarded result of the final from_string(BASE_SETTINGS)
  failed,      \* history: index of the fragment from_string rejected (0: none)
  ret,         \* what the thread's last call returned
  calls        \* number of calls started

\* asset materialisation (SpecAsset)
VARIABLES
  asset,       \* the AssetRef argument
  limits,      \* the LimitsConfig argument
  apc,         \* position inside asset_to_temp_path
  spos,        \* read position of the Stream's reader
  total,       \* copy_with_limits: total_bytes
  fs,          \* what the call created on the filesystem
  aret         \* the value asset_to_temp_path returned

\* URL validation (SpecUrl)
VARIABLES
  url,         \* the url_str argument, as Url::parse sees it
  allow_http,  \* the allow_http argument
  http_urls,   \* the build: whether the feature "http_urls" is compiled in
  dns,         \* the resolver: what to_socket_addrs yields for each name
  upc,         \* position inside validate_external_http_url
  uret         \* the value validate_external_http_url returned

\* the operation closures of sign_c2pa, generate_fragmented_bmff and
\* verify_c2pa (SpecSign)
VARIABLES
  scfg,        \* the call: entry point, source, output, limits, CAWG path
  surl,        \* the call: manifest definition, timestamper, remote URL
  skey,        \* the call: signers and their key files; the platform
  spc,         \* position inside the closure
  manifest,    \* the manifest JSON handed to Builder::from_json
  builder,     \* the c2pa::Builder
  checked,     \* history: the validate_external_http_url calls made
  io,          \* history: output length, signing calls, key files read
  sret         \* the value the closure returned

\* the tail of the verify_c2pa closure, once the Reader is built (SpecVerify)
VARIABLES
  vcfg,        \* the call: config.cawg and its two flags
  reader,      \* the c2pa::Reader: its validation results; the asset's identity
  vpc,         \* position inside the closure
  vout,        \* status_vec, verdict and cawg_verification as computed
  vret         \* the value the closure returned

\* content detection (SpecSniff)
VARIABLES
  data,        \* the data argument of detect_extension_from_bytes
  dpc,         \* position: "call" before the call, "done" after it
  dret         \* the value detect_extension_from_bytes returned

settingsVars == <<config, lockHolder, poisoned, pc, settings, idx, result, restored, failed, ret, calls>>
assetVars == <<asset, limits, apc, spos, total, fs, aret>>
urlVars == <<url, allow_http, http_urls, dns, upc, uret>>
signVars == <<scfg, surl, skey, spc, manifest, builder, checked, io, sret>>
verifyVars == <<vcfg, reader, vpc, vout, vret>>
sniffVars == <<data, dpc, dret>>
vars == <<settingsVars, assetVars, urlVars, signVars, verifyVars, sniffVars>>

\* What the actions of one part leave alone: the variables of the others.
outsideSettings == <<assetVars, urlVars, signVars, verifyVars, sniffVars>>
outsideAsset == <<settingsVars, urlVars, signVars, verifyVars, sniffVars>>
outsideUrl == <<settingsVars, assetVars, signVars, verifyVars, sniffVars>>
outsideSign == <<settingsVars, urlVars, verifyVars, sniffVars>>
outsideVerify == <<settingsVars, assetVars, urlVars, signVars, sniffVars>>
outsideSniff == <<settingsVars, assetVars, urlVars, signVars, verifyVars>>

(***************************************************************************)
(* Spec: the settings guard                                                *)
(***************************************************************************)
\* Overlay of a sequence of fragments, left to right.
RECURSIVE ApplyAll(_, _)
ApplyAll(current, jsons) ==
  IF jsons = <<>> THEN current
  ELSE ApplyAll(from_string(current, Head(jsons)), Tail(jsons))

\* A url_str that Url::parse rejects, and the absent host and address.
NoAddr == [family |-> "none", parts |-> <<>>]
NoHost == [kind |-> "None", name |-> "", addr |-> NoAddr]
InvalidUrl == [parsed |-> FALSE, scheme |-> "", host |-> NoHost]

InitUrlIdle ==
  /\ url = InvalidUrl
  /\ allow_http = FALSE
  /\ http_urls = FALSE
  /\ dns = <<>>
  /\ upc = "idle"
  /\ uret = NoRet

\* The absent URL of an Option<String> that is None.
NoUrl == [parsed |-> FALSE, scheme |-> "none", host |-> NoHost]

InitSignIdle ==
  /\ scfg = [entry |-> "none"]
  /\ surl = [timestamper |-> "none"]
  /\ skey = [signer |-> "none"]
  /\ spc = "idle"
  /\ manifest = [ta_url |-> NoUrl]
  /\ builder = [remote_url |-> NoUrl]
  /\ checked = {}
  /\ io = [out |-> 0, sign_calls |-> 0, keys |-> {}, leaked |-> {},
          fault |-> "none", signer_urls |-> {}]
  /\ sret = NoRet

\* Option::None: of the verdict, of status_vec and of cawg_verification.
None == "None"
NoStatuses == [some |-> FALSE, list |-> <<>>]
NoCawgVerification == [some |-> FALSE, present |-> FALSE, valid |-> FALSE]

InitVerifyIdle ==
  /\ vcfg = [cawg |-> FALSE]
  /\ reader = [some |-> FALSE]
  /\ vpc = "idle"
  /\ vout = [status |-> NoStatuses, verdict |-> None, cawg |-> NoCawgVerification]
  /\ vret = NoRet

InitSniffIdle ==
  /\ data = <<>>
  /\ dpc = "idle"
  /\ dret = NoRet

InitAssetIdle ==
  /\ asset = [variant |-> "Path", len |-> 0, hint |-> FALSE]
  /\ limits = [max_in_memory_asset_size |-> 0, max_stream_copy_size |-> 0]
  /\ apc = "idle"
  /\ spos = 0
  /\ total = 0
  /\ fs = [dirs |-> 0, files |-> 0, written |-> 0, data |-> <<>>]
  /\ aret = NoRet

InitSettings ==
  /\ config = EmptyObject
  /\ lockHolder = 0
  /\ poisoned = FALSE
  /\ pc = [t \in Threads |-> "idle"]
  /\ settings = [t \in Threads |-> <<>>]
  /\ idx = [t \in Threads |-> 0]
  /\ result = [t \in Threads |-> "none"]
  /\ restored = [t \in Threads |-> "none"]
  /\ failed = [t \in Threads |-> 0]
  /\ ret = [t \in Threads |-> NoRet]
  /\ calls = 0

Init ==
  /\ InitSettings /\ InitAssetIdle /\ InitUrlIdle /\ InitSignIdle
  /\ InitVerifyIdle /\ InitSniffIdle

\* Entry of with_c2pa_settings(settings, f) from a public operation.
Enter(t, jsons) ==
  /\ pc[t] = "idle"
  /\ calls < MaxCalls
  /\ calls' = calls + 1
  /\ settings' = [settings EXCEPT ![t] = jsons]
  /\ idx' = [idx EXCEPT ![t] = 0]
  /\ result' = [result EXCEPT ![t] = "none"]
  /\ restored' = [restored EXCEPT ![t] = "none"]
  /\ failed' = [failed EXCEPT ![t] = 0]
  /\ ret' = [ret EXCEPT ![t] = NoRet]
  /\ pc' = [pc EXCEPT ![t] = "lock"]
  /\ UNCHANGED <<config, lockHolder, poisoned, outsideSettings>>

\* The ? on build_trust_settings in sign_c2pa (sign.rs 28) and verify_c2pa
\* (verify.rs 41): the operation returns the error before the guard is
\* entered.
FailBeforeGuard(t, err) ==
  /\ pc[t] = "idle"
  /\ calls < MaxCalls
  /\ calls' = calls + 1
  /\ settings' = [settings EXCEPT ![t] = <<>>]
  /\ idx' = [idx EXCEPT ![t] = 0]
  /\ result' = [result EXCEPT ![t] = "none"]
  /\ restored' = [restored EXCEPT ![t] = "none"]
  /\ failed' = [failed EXCEPT ![t] = 0]
  /\ ret' = [ret EXCEPT ![t] = err]
  /\ UNCHANGED <<pc, config, lockHolder, poisoned, outsideSettings>>

\* sign.rs 16-35: sign_c2pa up to the call of with_c2pa_settings.
sign_c2pa(t) ==
  \E skip \in BOOLEAN, policy \in Policies :
    IF policy = "bad_utf8"
    THEN FailBeforeGuard(t, ErrTrustUtf8)
    ELSE Enter(t, SignSettings(skip, policy))

\* verify.rs 18-48: verify_c2pa up to the call of with_c2pa_settings (a
\* build with the remote_manifests feature).
verify_c2pa(t) ==
  \E allow_remote \in BOOLEAN, policy \in Policies :
    IF policy = "bad_utf8"
    THEN FailBeforeGuard(t, ErrTrustUtf8)
    ELSE Enter(t, VerifySettings(allow_remote, policy))

\* bmff.rs 10-17: generate_fragmented_bmff up to the call of
\* with_c2pa_settings.
generate_fragmented_bmff(t) ==
  \E skip \in BOOLEAN :
    Enter(t, BmffSettings(skip))

\* settings.rs 32-34: C2PA_SETTINGS_LOCK.lock().map_err(..)?
\* A poisoned mutex yields Err; the guard inside the PoisonError is dropped
\* by map_err, and the call returns EngineError::Panic.
AcquireIgnoringMutex(t) ==
  /\ pc[t] = "lock"
  /\ IF poisoned
     THEN /\ ret' = [ret EXCEPT ![t] = ErrPoisoned]
          /\ settings' = [settings EXCEPT ![t] = <<>>]
          /\ pc' = [pc EXCEPT ![t] = "idle"]
          /\ UNCHANGED lockHolder
     ELSE /\ lockHolder' = t
          /\ pc' = [pc EXCEPT ![t] = "base"]
          /\ UNCHANGED <<ret, settings>>
  /\ UNCHANGED <<config, poisoned, idx, result, restored, failed, calls, outsideSettings>>

AcquireIgnoringPoison(t) ==
  /\ pc[t] = "lock"
  /\ lockHolder = 0
  /\ lockHolder' = t
  /\ pc' = [pc EXCEPT ![t] = "base"]
  /\ UNCHANGED <<ret, config, poisoned, settings, idx, result, restored, failed, calls, outsideSettings>>

Acquire(t) ==
  /\ pc[t] = "lock"
  /\ lockHolder = 0
  /\ IF poisoned
     THEN /\ ret' = [ret EXCEPT ![t] = ErrPoisoned]
          /\ settings' = [settings EXCEPT ![t] = <<>>]
          /\ pc' = [pc EXCEPT ![t] = "idle"]
          /\ UNCHANGED lockHolder
     ELSE /\ lockHolder' = t
          /\ pc' = [pc EXCEPT ![t] = "base"]
          /\ UNCHANGED <<ret, settings>>
  /\ UNCHANGED <<config, poisoned, idx, result, restored, failed, calls, outsideSettings>>

\* settings.rs 20: let _ = Settings::from_string(BASE_SETTINGS, "json")?;
\* On Err the ? returns from apply_settings and from with_c2pa_settings,
\* dropping the guard.
ApplyBase(t) ==
  /\ pc[t] = "base"
  /\ \E r \in BaseOutcomes :
       IF r = "ok"
       THEN /\ config' = from_string(config, BASE_SETTINGS)
            /\ idx' = [idx EXCEPT ![t] = 1]
            /\ pc' = [pc EXCEPT ![t] = IF Len(settings[t]) = 0 THEN "run" ELSE "patch"]
            /\ UNCHANGED <<lockHolder, ret, settings>>
       ELSE /\ ret' = [ret EXCEPT ![t] = ErrSettings]
            /\ lockHolder' = 0
            /\ settings' = [settings EXCEPT ![t] = <<>>]
            /\ pc' = [pc EXCEPT ![t] = "idle"]
            /\ UNCHANGED <<config, idx>>
  /\ UNCHANGED <<poisoned, result, restored, failed, calls, outsideSettings>>

\* settings.rs 21-23: one iteration of the loop of apply_settings.
\* ok: the fragment is in force, the loop goes on (or apply_settings
\*     returns Ok and the operation starts).
\* err: ? returns the error; the guard is dropped, nothing is restored.
\* panic: the unwind leaves with_c2pa_settings; dropping the guard while
\*     panicking poisons the mutex.
ApplyPatchContinuing(t) ==
  /\ pc[t] = "patch"
  /\ \E r \in FragmentOutcomes :
       /\ config' = IF r = "ok" THEN from_string(config, settings[t][idx[t]]) ELSE config
       /\ failed' = [failed EXCEPT ![t] = IF r = "err" /\ failed[t] = 0 THEN idx[t] ELSE failed[t]]
       /\ idx' = [idx EXCEPT ![t] = idx[t] + 1]
       /\ pc' = [pc EXCEPT ![t] = IF idx[t] = Len(settings[t]) THEN "run" ELSE "patch"]
  /\ UNCHANGED <<lockHolder, poisoned, ret, settings, result, restored, calls, outsideSettings>>

ApplyPatch(t) ==
  /\ pc[t] = "patch"
  /\ \E r \in FragmentOutcomes :
       CASE r = "ok" ->
              /\ config' = from_string(config, settings[t][idx[t]])
              /\ idx' = [idx EXCEPT ![t] = idx[t] + 1]
              /\ pc' = [pc EXCEPT ![t] = IF idx[t] = Len(settings[t]) THEN "run" ELSE "patch"]
              /\ UNCHANGED <<lockHolder, poisoned, ret, failed, settings>>
         [] r = "err" ->
              /\ ret' = [ret EXCEPT ![t] = ErrSettings]
              /\ failed' = [failed EXCEPT ![t] = idx[t]]
              /\ lockHolder' = 0
              /\ settings' = [settings EXCEPT ![t] = <<>>]
              /\ pc' = [pc EXCEPT ![t] = "idle"]
              /\ UNCHANGED <<config, idx, poisoned>>
         [] r = "panic" ->
              /\ ret' = [ret EXCEPT ![t] = Unwound]
              /\ lockHolder' = 0
              /\ poisoned' = TRUE
              /\ settings' = [settings EXCEPT ![t] = <<>>]
              /\ pc' = [pc EXCEPT ![t] = "idle"]
              /\ UNCHANGED <<config, idx, failed>>
  /\ UNCHANGED <<result, restored, calls, outsideSettings>>

\* settings.rs 38: let result = catch_unwind(AssertUnwindSafe(|| f()));
\* pc = "run" is the operation in progress; this step is its end.
RunOperationUncaught(t) ==
  /\ pc[t] = "run"
  /\ \E o \in OperationOutcomes :
       IF o = "panic"
       THEN /\ ret' = [ret EXCEPT ![t] = Unwound]
            /\ lockHolder' = 0
            /\ poisoned' = TRUE
            /\ result' = [result EXCEPT ![t] = o]
            /\ settings' = [settings EXCEPT ![t] = <<>>]
            /\ pc' = [pc EXCEPT ![t] = "idle"]
       ELSE /\ result' = [result EXCEPT ![t] = o]
            /\ pc' = [pc EXCEPT ![t] = "restore"]
            /\ UNCHANGED <<ret, lockHolder, poisoned, settings>>
  /\ UNCHANGED <<config, idx, restored, failed, calls, outsideSettings>>

RunOperationPoisoning(t) ==
  /\ pc[t] = "run"
  /\ \E o \in OperationOutcomes :
       /\ result' = [result EXCEPT ![t] = o]
       /\ poisoned' = (poisoned \/ o = "panic")
       /\ pc' = [pc EXCEPT ![t] = "restore"]
  /\ UNCHANGED <<config, lockHolder, settings, idx, restored, ret, failed, calls, outsideSettings>>

RunOperation(t) ==
  /\ pc[t] = "run"
  /\ \E o \in OperationOutcomes :
       /\ result' = [result EXCEPT ![t] = o]
       /\ pc' = [pc EXCEPT ![t] = "restore"]
  /\ UNCHANGED <<config, lockHolder, poisoned, settings, idx, restored, ret, failed, calls, outsideSettings>>

\* settings.rs 40-42: let _ = Settings::from_string(BASE_SETTINGS, "json");
Restore(t) ==
  /\ pc[t] = "restore"
  /\ \E r \in BaseOutcomes :
       /\ config' = IF r = "ok" THEN from_string(config, BASE_SETTINGS) ELSE config
       /\ restored' = [restored EXCEPT ![t] = r]
  /\ pc' = [pc EXCEPT ![t] = "ret"]
  /\ UNCHANGED <<lockHolder, poisoned, settings, idx, result, ret, failed, calls, outsideSettings>>

\* settings.rs 44-47: match result { Ok(r) => r, Err(_) => Err(Panic) }
ReturnValueRestoreFirst(res, rst) ==
  IF rst = "err" THEN ErrSettings
  ELSE IF res = "ok" THEN OkRet
  ELSE IF res = "err" THEN ErrOperation
  ELSE ErrAdapterPanicked

ReturnValue(res, rst) ==
  IF res = "ok" THEN OkRet
  ELSE IF res = "err" THEN ErrOperation
  ELSE ErrAdapterPanicked

ReturnKeepingLock(t) ==
  /\ pc[t] = "ret"
  /\ ret' = [ret EXCEPT ![t] = ReturnValue(result[t], restored[t])]
  /\ settings' = [settings EXCEPT ![t] = <<>>]
  /\ idx' = [idx EXCEPT ![t] = 0]
  /\ pc' = [pc EXCEPT ![t] = "idle"]
  /\ UNCHANGED <<config, lockHolder, poisoned, result, restored, failed, calls, outsideSettings>>

\* settings.rs 44-48: the value is returned and _guard is dropped.
Return(t) ==
  /\ pc[t] = "ret"
  /\ ret' = [ret EXCEPT ![t] = ReturnValue(result[t], restored[t])]
  /\ lockHolder' = 0
  /\ settings' = [settings EXCEPT ![t] = <<>>]
  /\ idx' = [idx EXCEPT ![t] = 0]
  /\ pc' = [pc EXCEPT ![t] = "idle"]
  /\ UNCHANGED <<config, poisoned, result, restored, failed, calls, outsideSettings>>

\* ingredient.rs 10-51: create_ingredient calls Ingredient::from_file /
\* from_stream directly; pc = "ingredient" is that library call in progress.
create_ingredient(t) ==
  /\ pc[t] = "idle"
  /\ calls < MaxCalls
  /\ calls' = calls + 1
  /\ settings' = [settings EXCEPT ![t] = <<>>]
  /\ idx' = [idx EXCEPT ![t] = 0]
  /\ result' = [result EXCEPT ![t] = "none"]
  /\ restored' = [restored EXCEPT ![t] = "none"]
  /\ failed' = [failed EXCEPT ![t] = 0]
  /\ ret' = [ret EXCEPT ![t] = NoRet]
  /\ pc' = [pc EXCEPT ![t] = "ingredient"]
  /\ UNCHANGED <<config, lockHolder, poisoned, outsideSettings>>

IngredientReturn(t) ==
  /\ pc[t] = "ingredient"
  /\ \E o \in {"ok", "err"} :
       ret' = [ret EXCEPT ![t] = IF o = "ok" THEN OkRet ELSE ErrOperation]
  /\ pc' = [pc EXCEPT ![t] = "idle"]
  /\ UNCHANGED <<config, lockHolder, poisoned, settings, idx, result, restored, failed, calls, outsideSettings>>

Next ==
  \E t \in Threads :
    \/ sign_c2pa(t)
    \/ verify_c2pa(t)
    \/ generate_fragmented_bmff(t)
    \/ create_ingredient(t)
    \/ Acquire(t)
    \/ ApplyBase(t)
    \/ ApplyPatch(t)
    \/ RunOperation(t)
    \/ Restore(t)
    \/ Return(t)
    \/ IngredientReturn(t)

Spec == Init /\ [][Next]_vars

\* The steps of a call in progress on thread t.  Each thread is an OS
\* thread that keeps running, every library call and every operation
\* terminates, and Mutex::lock returns once the mutex stays free.
Progress(t) ==
  \/ Acquire(t)
  \/ ApplyBase(t)
  \/ ApplyPatch(t)
  \/ RunOperation(t)
  \/ Restore(t)
  \/ Return(t)
  \/ IngredientReturn(t)

SpecFair == Spec /\ \A t \in Threads : WF_vars(Progress(t))

(***************************************************************************)
(* Properties of the settings guard                                        *)
(***************************************************************************)
\* The thread is between the acquisition of the mutex and its release.
InWindow(t) == pc[t] \in {"base", "patch", "run", "restore", "ret"}

\* A wrapped-library call of a public operation is executing on the thread.
InLibraryCall(t) == pc[t] \in {"run", "ingredient"}

\* At least one fragment of the thread's call is in force.
PatchesApplied(t) == pc[t] \in {"patch", "run", "restore", "ret"} /\ idx[t] > 1

\* The value with_c2pa_settings owes its caller for an outcome of f.
OutcomeValue(res) ==
  CASE res = "ok" -> OkRet
    [] res = "err" -> ErrOperation
    [] res = "panic" -> ErrAdapterPanicked

\* C1: whenever the operation of a with_c2pa_settings call was started and
\* has ended (Ok, typed error or panic), the configuration is the empty
\* baseline at the point where the call is about to return and release the
\* mutex.
C1_BaselineBeforeReturn ==
  \A t \in Threads : pc[t] = "ret" => config = EmptyObject

\* C2: two with_c2pa_settings calls never interleave: no two threads are at
\* the same time between their first settings mutation and their return.
C2_NoInterleaving ==
  \A t, u \in Threads : t # u => ~(InWindow(t) /\ InWindow(u))

\* C2 witness: one call is inside its window while another thread has
\* called with_c2pa_settings and waits for the mutex.
C2_Witness ==
  \E t, u \in Threads : t # u /\ pc[t] = "run" /\ idx[t] > 1 /\ pc[u] = "lock"

\* C3: while a call's operation runs, the configuration is the empty
\* baseline overlaid with exactly that call's fragments, left to right; no
\* key of an earlier call is visible.
C3_ConfigIsOwnPatches ==
  \A t \in Threads : pc[t] = "run" => config = ApplyAll(EmptyObject, settings[t])

\* C4: a panic of the operation is caught inside with_c2pa_settings: the
\* call goes on to the restore step and returns the typed Panic error; the
\* unwind never leaves with_c2pa_settings (and so never poisons the mutex
\* on its way out).
C4_PanicIsCaught ==
  \A t \in Threads :
    result[t] = "panic" =>
      /\ pc[t] \in {"restore", "ret", "idle"}
      /\ ret[t] # Unwound
      /\ pc[t] = "idle" => ret[t] = ErrAdapterPanicked

\* C4 witness: a call whose operation panicked has returned the Panic error.
C4_Witness ==
  \E t \in Threads :
    result[t] = "panic" /\ pc[t] = "idle" /\ ret[t] = ErrAdapterPanicked

\* C5: when a with_c2pa_settings call returns because one of its fragments
\* failed to apply, the configuration it leaves behind is the empty
\* baseline.
C5_BaselineAfterPatchError ==
  [][\A t \in Threads :
       (failed[t] = 0 /\ failed'[t] # 0 /\ pc'[t] = "idle") => config' = EmptyObject]_vars

C7_OutcomeNotOverridden ==
  \A t \in Threads :
    (pc[t] = "idle" /\ result[t] # "none") => ret[t] = OutcomeValue(result[t])

\* C7 witness: the final reset failed and the call returned the operation's
\* Ok.
C7_Witness ==
  \E t \in Threads :
    pc[t] = "idle" /\ result[t] = "ok" /\ restored[t] = "err" /\ ret[t] = OkRet

C9_LibraryCallsGuarded ==
  \A t \in Threads :
    InLibraryCall(t) =>
      /\ lockHolder = t
      /\ \A u \in Threads \ {t} : ~PatchesApplied(u)

(***************************************************************************)
(* SpecAsset: asset_to_temp_path and copy_with_limits (asset_utils.rs).    *)
(* Lengths are byte counts.  The 8192-byte copy buffer and the 512-byte    *)
(* sniff buffer are scaled down to BufLen and SniffLen so that a stream of *)
(* at most MaxLen bytes still spans several chunks.                        *)
(***************************************************************************)
BufLen == 2
SniffLen == 1

Min(a, b) == IF a < b THEN a ELSE b

\* The n bytes of the source that follow offset pos, each byte named by its
\* position in the source; fs.data is the content of the file written.
Bytes(pos, n) == [i \in 1..n |-> pos + i]

ErrTooLarge == [kind |-> "Config", msg |-> "in-memory asset too large"]
ErrStreamLimit == [kind |-> "Config", msg |-> "Stream size limit exceeded"]
ErrIo == [kind |-> "Io", msg |-> ""]
OkPath == [kind |-> "Ok", msg |-> "path, None"]
OkTemp == [kind |-> "Ok", msg |-> "temp path, Some(dir)"]

\* The AssetRef values: Path; Bytes of a length; Stream of a length with or
\* without a content-type hint.
Assets ==
  {[variant |-> "Path", len |-> 0, hint |-> FALSE]}
  \cup {[variant |-> "Bytes", len |-> n, hint |-> FALSE] : n \in 0..MaxLen}
  \cup {[variant |-> "Stream", len |-> n, hint |-> h] : n \in 0..MaxLen, h \in BOOLEAN}

Limits ==
  [max_in_memory_asset_size : 0..MaxLimit, max_stream_copy_size : 0..MaxLimit]

InitAsset ==
  /\ InitVerifyIdle
  /\ InitSniffIdle
  /\ InitSettings
  /\ InitUrlIdle
  /\ InitSignIdle
  /\ asset \in Assets
  /\ limits \in Limits
  /\ apc = "start"
  /\ spos = 0
  /\ total = 0
  /\ fs = [dirs |-> 0, files |-> 0, written |-> 0, data |-> <<>>]
  /\ aret = NoRet

\* asset_utils.rs 47: data.len() > limits.max_in_memory_asset_size
TooLargeOffByOne(len, max) == len > max + 1

TooLarge(len, max) == len > max

Finish(r) ==
  /\ aret' = r
  /\ apc' = "done"

\* asset_utils.rs 44-49, 60: the match on the asset and, for Bytes, the
\* size check that precedes every filesystem call.
Dispatch ==
  /\ apc = "start"
  /\ CASE asset.variant = "Path" -> Finish(OkPath)
       [] asset.variant = "Bytes" ->
            IF TooLarge(asset.len, limits.max_in_memory_asset_size)
            THEN Finish(ErrTooLarge)
            ELSE apc' = "bytes_tempdir" /\ UNCHANGED aret
       [] asset.variant = "Stream" ->
            apc' = "stream_tempdir" /\ UNCHANGED aret
  /\ UNCHANGED <<asset, limits, spos, total, fs, outsideAsset>>

\* asset_utils.rs 50 and 61: let dir = tempfile::tempdir()?;
TempDir ==
  /\ apc \in {"bytes_tempdir", "stream_tempdir"}
  /\ \E ok \in BOOLEAN :
       IF ok
       THEN /\ fs' = [fs EXCEPT !.dirs = fs.dirs + 1]
            /\ apc' = IF apc = "bytes_tempdir" THEN "bytes_write"
                      ELSE IF asset.hint THEN "stream_create" ELSE "stream_sniff"
            /\ UNCHANGED aret
       ELSE Finish(ErrIo) /\ UNCHANGED fs
  /\ UNCHANGED <<asset, limits, spos, total, outsideAsset>>

\* asset_utils.rs 51-58: the file name is chosen and the buffer written
\* with one std::fs::write; a failed write may leave any prefix on disk.
BytesWrite ==
  /\ apc = "bytes_write"
  /\ \E ok \in BOOLEAN :
       IF ok
       THEN /\ fs' = [fs EXCEPT !.files = fs.files + 1, !.written = asset.len,
                             !.data = Bytes(0, asset.len)]
            /\ Finish(OkTemp)
       ELSE /\ \E n \in 0..asset.len :
                 fs' = [fs EXCEPT !.files = fs.files + 1, !.written = n,
                                 !.data = Bytes(0, n)]
            /\ Finish(ErrIo)
  /\ UNCHANGED <<asset, limits, spos, total, outsideAsset>>

\* asset_utils.rs 76-90: without a hint up to 512 bytes are read
\* (read(..).unwrap_or(0)) and the reader is sought back to 0; the result
\* of the seek is discarded (let _ =).
StreamSniff ==
  /\ apc = "stream_sniff"
  /\ \E n \in 0..Min(SniffLen, asset.len), rewound \in BOOLEAN :
       spos' = IF rewound THEN 0 ELSE n
  /\ apc' = "stream_create"
  /\ UNCHANGED <<asset, limits, total, fs, aret, outsideAsset>>

\* asset_utils.rs 100: let mut file = std::fs::File::create(&path)?;
StreamCreate ==
  /\ apc = "stream_create"
  /\ \E ok \in BOOLEAN :
       IF ok
       THEN /\ fs' = [fs EXCEPT !.files = fs.files + 1]
            /\ apc' = "copy"
            /\ UNCHANGED aret
       ELSE Finish(ErrIo) /\ UNCHANGED fs
  /\ UNCHANGED <<asset, limits, spos, total, outsideAsset>>

\* asset_utils.rs 23-24: the running total is compared with the cap after
\* the chunk just read is added to it, before the chunk is written.
ExceedsLimitBeforeAdd(total_bytes, bytes_read, max_bytes) ==
  total_bytes > max_bytes

ExceedsLimitAtCap(total_bytes, bytes_read, max_bytes) ==
  total_bytes + bytes_read >= max_bytes

ExceedsLimit(total_bytes, bytes_read, max_bytes) ==
  total_bytes + bytes_read > max_bytes

\* asset_utils.rs 14-37 (called at 106): one iteration of the loop of
\* copy_with_limits, or its exit at end of file.
CopyChunk ==
  /\ apc = "copy"
  /\ \E ok \in BOOLEAN :
       IF ~ok
       THEN \* reader.read failed
            Finish(ErrIo) /\ UNCHANGED <<spos, total, fs>>
       ELSE IF spos = asset.len
       THEN \* bytes_read == 0: break, flush, Ok(total_bytes)
            \E flushed \in BOOLEAN :
              /\ Finish(IF flushed THEN OkTemp ELSE ErrIo)
              /\ UNCHANGED <<spos, total, fs>>
       ELSE \E n \in 1..Min(BufLen, asset.len - spos) :
              LET new_total == total + n IN
              IF ExceedsLimit(total, n, limits.max_stream_copy_size)
              THEN /\ Finish(ErrStreamLimit)
                   /\ spos' = spos + n
                   /\ UNCHANGED <<total, fs>>
              ELSE \E written \in BOOLEAN :
                     IF written
                     THEN /\ fs' = [fs EXCEPT !.written = fs.written + n,
                                           !.data = fs.data \o Bytes(spos, n)]
                          /\ total' = new_total
                          /\ spos' = spos + n
                          /\ UNCHANGED <<apc, aret>>
                     ELSE /\ Finish(ErrIo)
                          /\ spos' = spos + n
                          /\ UNCHANGED <<total, fs>>
  /\ UNCHANGED <<asset, limits, outsideAsset>>

NextAsset ==
  \/ Dispatch
  \/ TempDir
  \/ BytesWrite
  \/ StreamSniff
  \/ StreamCreate
  \/ CopyChunk

SpecAsset == InitAsset /\ [][NextAsset]_vars

\* C10: for a Bytes asset longer than limits.max_in_memory_asset_size,
\* asset_to_temp_path returns the Configuration error "in-memory asset too
\* large" and does nothing on the filesystem: no temporary directory, no
\* file, no byte written.
C10_OversizeBytesNoWrite ==
  (asset.variant = "Bytes" /\ asset.len > limits.max_in_memory_asset_size) =>
    /\ fs = [dirs |-> 0, files |-> 0, written |-> 0, data |-> <<>>]
    /\ apc \in {"start", "done"}
    /\ apc = "done" => aret = ErrTooLarge

\* C10 witness: the call on an oversize Bytes asset has returned.
C10_Witness ==
  /\ asset.variant = "Bytes"
  /\ asset.len > limits.max_in_memory_asset_size
  /\ apc = "done"
  /\ aret = ErrTooLarge

\* C11: copy_with_limits never writes more than max_bytes: every byte it
\* has written is counted in the running total, the total never exceeds the
\* cap, the abort with the Configuration size error leaves the offending
\* chunk unwritten, and the copy succeeds only at end of stream with all it
\* read written, so a stream longer than the cap never yields success.
C11_CopyNeverExceedsCap ==
  asset.variant = "Stream" =>
    /\ fs.written = total
    /\ fs.written <= limits.max_stream_copy_size
    /\ aret = ErrStreamLimit =>
         /\ spos > limits.max_stream_copy_size
         /\ fs.written < spos
    /\ aret = OkTemp => spos = asset.len
    /\ (asset.hint /\ asset.len > limits.max_stream_copy_size) => aret # OkTemp

\* C11 witness: the copy wrote some chunks and then aborted at the chunk
\* that would have passed the cap.
C11_Witness ==
  /\ asset.variant = "Stream"
  /\ apc = "done"
  /\ aret = ErrStreamLimit
  /\ fs.written > 0
  /\ asset.len > limits.max_stream_copy_size

\* C14: when a Stream asset has no content-type hint, the copy that follows
\* the sniff starts at the stream's start: the file is never created, and
\* nothing is copied, with the reader left at the post-sniff position.
C14_CopyStartsAtStreamStart ==
  (asset.variant = "Stream" /\ ~asset.hint /\ apc \in {"stream_create", "copy"}) =>
    spos = total

(***************************************************************************)
(* SpecUrl: validate_external_http_url (url_validation.rs).  A URL is the  *)
(* value Url::parse yields: its scheme and its host, which is a literal    *)
(* IPv4 address (four octets), a literal IPv6 address (eight 16-bit        *)
(* segments) or a domain name.                                             *)
(***************************************************************************)
V4(a, b, c, d) == [family |-> "V4", parts |-> <<a, b, c, d>>]
V6(a, b, c, d, e, f, g, h) == [family |-> "V6", parts |-> <<a, b, c, d, e, f, g, h>>]

\* 10.0.0.5, 172.16.0.1, 192.168.1.1, 127.0.0.1, 169.254.169.254,
\* 255.255.255.255, 192.0.2.1, 0.0.0.0, 224.0.0.1, 93.184.216.34
Ipv4Addrs ==
  { V4(10, 0, 0, 5), V4(172, 16, 0, 1), V4(192, 168, 1, 1), V4(127, 0, 0, 1),
    V4(169, 254, 169, 254), V4(255, 255, 255, 255), V4(192, 0, 2, 1),
    V4(0, 0, 0, 0), V4(224, 0, 0, 1), V4(93, 184, 216, 34) }

\* ::1, fc00::1, fe80::1, ::, ff02::1, 2001:db8::1, 2606:4700::1111
Ipv6Addrs ==
  { V6(0, 0, 0, 0, 0, 0, 0, 1), V6(64512, 0, 0, 0, 0, 0, 0, 1),
    V6(65152, 0, 0, 0, 0, 0, 0, 1), V6(0, 0, 0, 0, 0, 0, 0, 0),
    V6(65282, 0, 0, 0, 0, 0, 0, 1), V6(8193, 3512, 0, 0, 0, 0, 0, 1),
    V6(9734, 18176, 0, 0, 0, 0, 0, 4369) }

Domains == {"tsa.example", "timestamp.digicert.com"}

IpHost(a) ==
  [kind |-> IF a.family = "V4" THEN "Ipv4" ELSE "Ipv6", name |-> "", addr |-> a]

DomainHost(n) == [kind |-> "Domain", name |-> n, addr |-> NoAddr]

Hosts ==
  {IpHost(a) : a \in Ipv4Addrs \cup Ipv6Addrs} \cup {DomainHost(n) : n \in Domains}

\* http and https URLs always have a host; a file URL may have none.
Urls ==
  {InvalidUrl}
  \cup [parsed : {TRUE}, scheme : {"https", "http", "ftp"}, host : Hosts]
  \cup {[parsed |-> TRUE, scheme |-> "file", host |-> NoHost]}

\* What the resolver answers for a name: an error, or a list of addresses.
ResolvedAddrs == {V4(93, 184, 216, 34), V4(10, 0, 0, 5), V6(9734, 18176, 0, 0, 0, 0, 0, 4369)}

DnsOutcomes ==
  {[ok |-> FALSE, addrs |-> {}]} \cup [ok : {TRUE}, addrs : SUBSET ResolvedAddrs]

\* std::net::Ipv4Addr predicates called at url_validation.rs 32 and 47.
v4_is_private(o) ==
  \/ o[1] = 10
  \/ o[1] = 172 /\ o[2] \in 16..31
  \/ o[1] = 192 /\ o[2] = 168

v4_is_loopback(o) == o[1] = 127

v4_is_link_local(o) == o[1] = 169 /\ o[2] = 254

v4_is_broadcast(o) == o = <<255, 255, 255, 255>>

v4_is_documentation(o) ==
  \/ o[1] = 192 /\ o[2] = 0 /\ o[3] = 2
  \/ o[1] = 198 /\ o[2] = 51 /\ o[3] = 100
  \/ o[1] = 203 /\ o[2] = 0 /\ o[3] = 113

v4_is_unspecified(o) == o = <<0, 0, 0, 0>>

\* std::net::Ipv6Addr predicates called at url_validation.rs 33 and 48;
\* the masks 0xfe00, 0xffc0 and 0xff00 are divisions by 512, 64 and 256.
v6_is_loopback(g) == g = <<0, 0, 0, 0, 0, 0, 0, 1>>

v6_is_unique_local(g) == g[1] \div 512 = 126

v6_is_unicast_link_local(g) == g[1] \div 64 = 1018

v6_is_unspecified(g) == g = <<0, 0, 0, 0, 0, 0, 0, 0>>

v6_is_multicast(g) == g[1] \div 256 = 255

\* url_validation.rs 31-34 and 46-49: the closure is_blocked.
is_blocked(ip) ==
  IF ip.family = "V4"
  THEN \/ v4_is_private(ip.parts)
       \/ v4_is_loopback(ip.parts)
       \/ v4_is_link_local(ip.parts)
       \/ v4_is_broadcast(ip.parts)
       \/ v4_is_documentation(ip.parts)
       \/ v4_is_unspecified(ip.parts)
  ELSE \/ v6_is_loopback(ip.parts)
       \/ v6_is_unique_local(ip.parts)
       \/ v6_is_unicast_link_local(ip.parts)
       \/ v6_is_unspecified(ip.parts)
       \/ v6_is_multicast(ip.parts)

UrlOk == [kind |-> "Ok", msg |-> "()"]
ErrInvalidUrl == [kind |-> "Config", msg |-> "invalid URL"]
ErrHttpNotAllowed == [kind |-> "Config", msg |-> "HTTP URLs are not allowed"]
ErrFeatureHttpUrls == [kind |-> "Feature", msg |-> "http_urls"]
ErrUnsupportedScheme == [kind |-> "Config", msg |-> "unsupported URL scheme"]
ErrMissingHost == [kind |-> "Config", msg |-> "URL missing host"]
ErrHostNotAllowed == [kind |-> "Config", msg |-> "URL host is not allowed (private/link-local/loopback)"]
ErrResolvesDisallowed == [kind |-> "Config", msg |-> "URL resolves to a disallowed private/loopback address"]

\* url_validation.rs 10-24: the match on the scheme; UrlOk stands for
\* falling through to the host checks.
check_scheme_feature_only(scheme, allow, feature) ==
  CASE scheme = "https" -> UrlOk
    [] scheme = "http" -> IF feature THEN UrlOk ELSE ErrFeatureHttpUrls
    [] OTHER -> ErrUnsupportedScheme

check_scheme(scheme, allow, feature) ==
  CASE scheme = "https" -> UrlOk
    [] scheme = "http" ->
         IF ~allow THEN ErrHttpNotAllowed
         ELSE IF ~feature THEN ErrFeatureHttpUrls
         ELSE UrlOk
    [] OTHER -> ErrUnsupportedScheme

\* url_validation.rs 40-43: (host_str, default_port).to_socket_addrs().  A
\* literal address that passed is_blocked at 31-37 either resolves to
\* itself or is not resolved at all, with the same outcome at 44-53.
to_socket_addrs(host) ==
  IF host.kind = "Domain" THEN dns[host.name]
  ELSE [ok |-> TRUE, addrs |-> {host.addr}]

\* url_validation.rs 7-58.
validate_external_http_url(url_str, allow) ==
  IF ~url_str.parsed THEN ErrInvalidUrl
  ELSE LET scheme_result == check_scheme(url_str.scheme, allow, http_urls)
           host == url_str.host
       IN IF scheme_result # UrlOk THEN scheme_result
          ELSE IF host.kind = "None" THEN ErrMissingHost
          ELSE IF host.kind \in {"Ipv4", "Ipv6"} /\ is_blocked(host.addr)
          THEN ErrHostNotAllowed
          ELSE LET resolved == to_socket_addrs(host)
               IN IF resolved.ok /\ \E a \in resolved.addrs : is_blocked(a)
                  THEN ErrResolvesDisallowed
                  ELSE UrlOk

InitUrl ==
  /\ InitVerifyIdle
  /\ InitSniffIdle
  /\ InitSettings
  /\ InitAssetIdle
  /\ InitSignIdle
  /\ url \in Urls
  /\ allow_http \in BOOLEAN
  /\ http_urls \in BOOLEAN
  /\ dns \in [Domains -> DnsOutcomes]
  /\ upc = "start"
  /\ uret = NoRet

Validate ==
  /\ upc = "start"
  /\ uret' = validate_external_http_url(url, allow_http)
  /\ upc' = "done"
  /\ UNCHANGED <<url, allow_http, http_urls, dns, outsideUrl>>

NextUrl == Validate

SpecUrl == InitUrl /\ [][NextUrl]_vars

\* C15: an http URL is accepted only when allow_http is true and the
\* feature http_urls is built in; with allow_http false it is refused with
\* the Configuration error of the policy, with allow_http true and the
\* feature absent with the Feature error of the build; a scheme other than
\* http and https is refused whatever the host is.
C15_SchemeRules ==
  (upc = "done" /\ url.parsed) =>
    /\ (url.scheme = "http" /\ uret = UrlOk) => (allow_http /\ http_urls)
    /\ (url.scheme = "http" /\ ~allow_http) => uret = ErrHttpNotAllowed
    /\ (url.scheme = "http" /\ allow_http /\ ~http_urls) => uret = ErrFeatureHttpUrls
    /\ url.scheme \notin {"http", "https"} => uret = ErrUnsupportedScheme

\* C15 witness: an http URL was accepted, under allow_http with the feature.
C15_Witness ==
  /\ upc = "done"
  /\ url.scheme = "http"
  /\ allow_http
  /\ http_urls
  /\ uret = UrlOk

\* The address classes of the claim C16 that the code does not test:
\* IPv4 multicast (224.0.0.0/4) and the IPv6 documentation range
\* (2001:db8::/32).
v4_is_multicast(o) == o[1] \in 224..239

v6_is_documentation(g) == g[1] = 8193 /\ g[2] = 3512

InBlockedClass(ip) ==
  \/ is_blocked(ip)
  \/ ip.family = "V4" /\ v4_is_multicast(ip.parts)
  \/ ip.family = "V6" /\ v6_is_documentation(ip.parts)

\* C16: a URL whose host is a literal address that is private, loopback,
\* link-local, broadcast, documentation-range, unspecified, unique-local or
\* multicast, in either family, is never accepted.
C16_LiteralClassesRejected ==
  (upc = "done" /\ url.parsed /\ url.host.kind \in {"Ipv4", "Ipv6"}
     /\ InBlockedClass(url.host.addr)) => uret # UrlOk

\* C17: a URL whose host is a domain name is accepted only if the name was
\* resolved and every resolved address is outside the blocked ranges.
C17_AcceptedOnlyIfResolved ==
  (upc = "done" /\ url.parsed /\ url.host.kind = "Domain" /\ uret = UrlOk) =>
    /\ dns[url.host.name].ok
    /\ \A a \in dns[url.host.name].addrs : ~is_blocked(a)

(***************************************************************************)
(* SpecSign: the closures that sign_c2pa (sign.rs), generate_fragmented_   *)
(* bmff (bmff.rs) and verify_c2pa (verify.rs) pass to with_c2pa_settings,  *)
(* from prepare_manifest_json to the signing or reading call.  The source  *)
(* is materialised by the steps of SpecAsset.  config.parent is None.      *)
(***************************************************************************)
\* config.rs 45-54: LimitsConfig with its three enforced caps.
SignLimits ==
  [max_in_memory_asset_size : 0..MaxLimit,
   max_stream_copy_size : 0..MaxLimit,
   max_in_memory_output_size : 0..MaxLimit]

WideLimits ==
  [max_in_memory_asset_size |-> MaxLimit,
   max_stream_copy_size |-> MaxLimit,
   max_in_memory_output_size |-> MaxLimit]

PathAsset == [variant |-> "Path", len |-> 0, hint |-> FALSE]

\* The calls that differ in source, output, limits and signing path; cawg
\* is TRUE when the feature "cawg" is built and config.cawg_identity is
\* Some.
SourceConfigs ==
  [entry : {"sign_c2pa"}, source : Assets, output : {"Memory", "Path"},
   limits : SignLimits, cawg : BOOLEAN]
  \cup [entry : {"verify_c2pa"}, source : Assets, output : {"None"},
        limits : SignLimits, cawg : {FALSE}]

\* The signing calls on a source file with wide limits.
PlainConfigs ==
  [entry : {"sign_c2pa"}, source : {PathAsset}, output : {"Path"},
   limits : {WideLimits}, cawg : BOOLEAN]
  \cup [entry : {"generate_fragmented_bmff"}, source : {PathAsset},
        output : {"Path"}, limits : {WideLimits}, cawg : {FALSE}]

\* https://tsa.example, http://tsa.example, https://10.0.0.5,
\* https://93.184.216.34, ftp://tsa.example and a string that is no URL.
SampleUrls ==
  { [parsed |-> TRUE, scheme |-> "https", host |-> DomainHost("tsa.example")],
    [parsed |-> TRUE, scheme |-> "http", host |-> DomainHost("tsa.example")],
    [parsed |-> TRUE, scheme |-> "https", host |-> IpHost(V4(10, 0, 0, 5))],
    [parsed |-> TRUE, scheme |-> "https", host |-> IpHost(V4(93, 184, 216, 34))],
    [parsed |-> TRUE, scheme |-> "ftp", host |-> DomainHost("tsa.example")],
    InvalidUrl }

\* timestamper.rs 9-14: Option<Timestamper>.
Timestampers ==
  { [kind |-> "None", url |-> NoUrl], [kind |-> "Digicert", url |-> NoUrl] }
  \cup [kind : {"Custom"}, url : SampleUrls]

\* timestamper.rs 36-43: Timestamper::resolve; "http://timestamp.digicert.com"
\* as Url::parse sees it.
DigicertUrl ==
  [parsed |-> TRUE, scheme |-> "http", host |-> DomainHost("timestamp.digicert.com")]

resolve(tsa) ==
  IF tsa.kind = "Digicert" THEN DigicertUrl ELSE tsa.url

\* The manifest definition: None, a JSON object, or JSON that is no object;
\* the remote manifest URL and allow_insecure_remote_http: Option<bool>.
UrlConfigs ==
  [manifest_definition : {"None", "object", "array"},
   timestamper : Timestampers,
   remote_manifest_url : {NoUrl} \cup SampleUrls,
   allow_insecure_remote_http : {"None", "Some(false)", "Some(true)"}]

NoUrlConfig ==
  [manifest_definition |-> "object",
   timestamper |-> [kind |-> "None", url |-> NoUrl],
   remote_manifest_url |-> NoUrl,
   allow_insecure_remote_http |-> "None"]

\* common.rs 98: config.allow_insecure_remote_http.unwrap_or(false)
unwrap_or_false(opt) == opt = "Some(true)"

\* signer.rs 27-30: Signer::Local with the permission bits of its key file
\* (0600, 0400, 0640, 0644, 0604), or Signer::Env.
KeyModes == {384, 256, 416, 420, 388}

Signers ==
  {[kind |-> "Env", mode |-> 0]} \cup [kind : {"Local"}, mode : KeyModes]

EnvSigner == [kind |-> "Env", mode |-> 0]

\* cawg.rs 126-200: CawgSigner::UseMainSigner or CawgSigner::Separate(_).
CawgSigners ==
  {[kind |-> "UseMainSigner", signer |-> EnvSigner]}
  \cup [kind : {"Separate"}, signer : Signers]

\* domain/cawg.rs 17: the timestamper of the CAWG identity.
CawgTimestampers ==
  { [kind |-> "None", url |-> NoUrl], [kind |-> "Digicert", url |-> NoUrl],
    [kind |-> "Custom", url |-> [parsed |-> TRUE, scheme |-> "https",
                                 host |-> DomainHost("tsa.example")]] }

\* unix is TRUE when the build is for a POSIX platform (cfg(unix)).
KeyConfigs ==
  [signer : Signers, cawg_signer : CawgSigners,
   cawg_timestamper : CawgTimestampers, unix : BOOLEAN]

EnvKeyConfig ==
  [signer |-> EnvSigner,
   cawg_signer |-> [kind |-> "UseMainSigner", signer |-> EnvSigner],
   cawg_timestamper |-> [kind |-> "None", url |-> NoUrl],
   unix |-> TRUE]

\* The resolver of the signing calls.
SignDns ==
  [Domains -> {[ok |-> FALSE, addrs |-> {}],
               [ok |-> TRUE, addrs |-> {V4(93, 184, 216, 34)}],
               [ok |-> TRUE, addrs |-> {V4(93, 184, 216, 34), V4(10, 0, 0, 5)}]}]

\* bmff.rs 40: the number of init segments the glob matches.
MaxSegments == 2

OkNone == [kind |-> "Ok", msg |-> "None"]
OkSome == [kind |-> "Ok", msg |-> "Some(buf)"]
OkReport == [kind |-> "Ok", msg |-> "VerificationResult"]
ErrOutputTooLarge == [kind |-> "Config", msg |-> "signed output too large to return in memory"]
\* Messages are the format strings of the source; {e} is the text of the
\* std::io::Error, which does not name the file.
ErrSigner == [kind |-> "C2pa", msg |-> "Failed to create signer from local files"]
ErrSignerEnvVar == [kind |-> "C2pa", msg |-> "Environment variable not found: {var}"]
ErrSignerKeys == [kind |-> "C2pa", msg |-> "Failed to create signer from environment variables"]
ErrInsecureKey == [kind |-> "Config", msg |-> "Insecure key file permissions for {path} (expected 0600 or stricter)"]
ErrKeyStat == [kind |-> "Config", msg |-> "Failed to stat key file: {e}"]
ErrCertRead == [kind |-> "Config", msg |-> "Failed to read cert: {e}"]
ErrKeyRead == [kind |-> "Config", msg |-> "Failed to read key: {e}"]
ErrEnvVar == [kind |-> "Config", msg |-> "env var not found: {var}"]

InitSign ==
  /\ InitVerifyIdle
  /\ InitSniffIdle
  /\ InitSettings
  /\ InitAssetIdle
  /\ url = InvalidUrl
  /\ allow_http = FALSE
  /\ upc = "idle"
  /\ uret = NoRet
  /\ \/ /\ scfg \in SourceConfigs
        /\ surl = NoUrlConfig
        /\ skey = EnvKeyConfig
        /\ http_urls = FALSE
        /\ dns = [d \in Domains |-> [ok |-> FALSE, addrs |-> {}]]
     \/ /\ scfg \in PlainConfigs
        /\ surl \in UrlConfigs
        /\ skey = EnvKeyConfig
        /\ http_urls \in BOOLEAN
        /\ dns \in SignDns
     \/ /\ scfg \in PlainConfigs
        /\ surl = NoUrlConfig
        /\ skey \in KeyConfigs
        /\ http_urls = FALSE
        /\ dns = [d \in Domains |-> [ok |-> FALSE, addrs |-> {}]]
  /\ spc = IF scfg.entry = "verify_c2pa" THEN "source" ELSE "prepare"
  /\ manifest = [ta_url |-> NoUrl]
  /\ builder = [remote_url |-> NoUrl]
  /\ checked = {}
  /\ io = [out |-> 0, sign_calls |-> 0, keys |-> {}, leaked |-> {},
          fault |-> "none", signer_urls |-> {}]
  /\ sret = NoRet

SReturn(r) ==
  /\ sret' = r
  /\ spc' = "done"

\* One call of validate_external_http_url, as the history records it.
CheckedCall(u, allow) ==
  [url |-> u, allow |-> allow, result |-> validate_external_http_url(u, allow)]

\* settings.rs 50-82: prepare_manifest_json.  The URL of the timestamper
\* goes into the manifest when the definition is None or a JSON object.
PrepareManifestUnchecked ==
  /\ spc = "prepare"
  /\ LET tsa == surl.timestamper
         inserts == tsa.kind # "None" /\ surl.manifest_definition \in {"None", "object"}
     IN /\ manifest' = [ta_url |-> IF inserts THEN resolve(tsa) ELSE NoUrl]
        /\ spc' = "builder"
        /\ UNCHANGED <<checked, sret>>
  /\ UNCHANGED <<scfg, surl, skey, builder, io, assetVars, outsideSign>>

PrepareManifest ==
  /\ spc = "prepare"
  /\ LET tsa == surl.timestamper
         inserts == tsa.kind # "None" /\ surl.manifest_definition \in {"None", "object"}
         call == CheckedCall(resolve(tsa), FALSE)
     IN IF ~inserts
        THEN /\ spc' = "builder"
             /\ UNCHANGED <<manifest, checked, sret>>
        ELSE /\ checked' = checked \cup {call}
             /\ IF call.result = UrlOk
                THEN /\ manifest' = [ta_url |-> call.url]
                     /\ spc' = "builder"
                     /\ UNCHANGED sret
                ELSE /\ SReturn(call.result)
                     /\ UNCHANGED manifest
  /\ UNCHANGED <<scfg, surl, skey, builder, io, assetVars, outsideSign>>

\* common.rs 97-101 and bmff.rs 24-28: the remote manifest URL is
\* validated and then set on the builder.
SetRemoteUrl(next) ==
  IF surl.remote_manifest_url = NoUrl
  THEN /\ spc' = next
       /\ UNCHANGED <<builder, checked, sret>>
  ELSE LET call == CheckedCall(surl.remote_manifest_url,
                               unwrap_or_false(surl.allow_insecure_remote_http))
       IN /\ checked' = checked \cup {call}
          /\ IF call.result = UrlOk
             THEN /\ builder' = [remote_url |-> call.url]
                  /\ spc' = next
                  /\ UNCHANGED sret
             ELSE /\ SReturn(call.result)
                  /\ UNCHANGED builder

\* sign.rs 44-47 and 83-84, bmff.rs 20: Builder::from_json, which fails on
\* a definition that is no object, and for sign_c2pa setup_builder
\* (common.rs 73-107).
SetupBuilder ==
  /\ spc = "builder"
  /\ \E ok \in (IF surl.manifest_definition = "array" THEN {FALSE} ELSE BOOLEAN) :
       IF ~ok
       THEN /\ SReturn(ErrOperation)
            /\ UNCHANGED <<builder, checked>>
       ELSE IF scfg.entry = "sign_c2pa"
       THEN SetRemoteUrl(IF scfg.cawg THEN "cawg_signer" ELSE "signer")
       ELSE /\ spc' = "signer"
            /\ UNCHANGED <<builder, checked, sret>>
  /\ UNCHANGED <<scfg, surl, skey, manifest, io, assetVars, outsideSign>>

\* signer.rs 59-95: the outcomes of Signer::resolve.  For Signer::Local the
\* library's from_files reads the certificate and the key file; the error
\* of the library is wrapped by .context(..), and From<anyhow::Error>
\* (error.rs 23-27) keeps the outermost message only.  The timestamp URL
\* handed to the constructor is None.
resolve_outcomes(g) ==
  IF g.kind = "Local"
  THEN {[res |-> OkRet, keys |-> {"main"}, fault |-> "none"],
        [res |-> ErrSigner, keys |-> {}, fault |-> "missing_file"],
        [res |-> ErrSigner, keys |-> {"main"}, fault |-> "malformed"]}
  ELSE {[res |-> OkRet, keys |-> {}, fault |-> "none"],
        [res |-> ErrSignerEnvVar, keys |-> {}, fault |-> "unset_var"],
        [res |-> ErrSignerKeys, keys |-> {}, fault |-> "malformed"]}

\* signer.rs 59-95: Signer::resolve, called at sign.rs 86 and bmff.rs 22.
ResolveSigner ==
  /\ spc = "signer"
  /\ \E o \in resolve_outcomes(skey.signer) :
       /\ io' = [io EXCEPT !.keys = @ \cup o.keys, !.fault = o.fault]
       /\ IF o.res = OkRet
          THEN /\ spc' = IF scfg.entry = "sign_c2pa" THEN "source" ELSE "bmff_remote"
               /\ UNCHANGED sret
          ELSE SReturn(o.res)
  /\ UNCHANGED <<scfg, surl, skey, manifest, builder, checked, assetVars, outsideSign>>

\* cawg.rs 16-32: check_private_key_permissions, once the stat succeeded.
check_private_key_permissions(mode) ==
  IF skey.unix /\ mode % 64 # 0 THEN ErrInsecureKey ELSE OkRet

\* cawg.rs 60-78, 131-150, 164-168, 185-192: the certificate and the key
\* of a signer are read into buffers; each outcome names the key file read
\* and the buffers dropped with their content (a certificate buffer, when
\* the read of the key fails after it).
load_key(g, file) ==
  IF g.kind = "Env"
  THEN {[res |-> OkRet, keys |-> {}, fault |-> "none", leaked |-> {}],
        [res |-> ErrEnvVar, keys |-> {}, fault |-> "unset_var", leaked |-> {}]}
  ELSE IF check_private_key_permissions(g.mode) # OkRet
  THEN {[res |-> check_private_key_permissions(g.mode), keys |-> {},
         fault |-> "insecure", leaked |-> {}]}
  ELSE {[res |-> OkRet, keys |-> {file}, fault |-> "none", leaked |-> {}],
        [res |-> ErrCertRead, keys |-> {}, fault |-> "missing_file", leaked |-> {}],
        [res |-> ErrKeyRead, keys |-> {}, fault |-> "missing_file", leaked |-> {"cert"}]}
       \cup (IF skey.unix
             THEN {[res |-> ErrKeyStat, keys |-> {}, fault |-> "missing_file", leaked |-> {}]}
             ELSE {})

\* cawg.rs 51-114 with create_cawg_raw_signer (120-207), called at
\* sign.rs 49-57.  Each pair of buffers is handed to
\* async_signer_from_cert_chain_and_private_key with a timestamp URL; the
\* ? on its error returns before the two zeroize calls that follow it.
CreateCawgSigner ==
  /\ spc = "cawg_signer"
  /\ LET use_main == skey.cawg_signer.kind = "UseMainSigner"
         second == IF use_main THEN skey.signer ELSE skey.cawg_signer.signer
         second_file == IF use_main THEN "main" ELSE "cawg"
         main_timestamp == IF surl.timestamper.kind = "None" THEN NoUrl
                           ELSE resolve(surl.timestamper)
         own_timestamp == IF skey.cawg_timestamper.kind = "None" THEN NoUrl
                          ELSE resolve(skey.cawg_timestamper)
         cawg_timestamp == IF own_timestamp # NoUrl \/ ~use_main THEN own_timestamp
                           ELSE main_timestamp
     IN \E o1 \in load_key(skey.signer, "main") :
          IF o1.res # OkRet
          THEN /\ SReturn(o1.res)
               /\ io' = [io EXCEPT !.keys = @ \cup o1.keys, !.fault = o1.fault,
                                   !.leaked = @ \cup o1.leaked]
          ELSE \E built1 \in BOOLEAN :
                 IF ~built1
                 THEN /\ SReturn(ErrOperation)
                      /\ io' = [io EXCEPT !.keys = @ \cup o1.keys, !.fault = "malformed",
                                          !.leaked = @ \cup {"cert", "key"},
                                          !.signer_urls = @ \cup ({main_timestamp} \ {NoUrl})]
                 ELSE \E o2 \in load_key(second, second_file) :
                        IF o2.res # OkRet
                        THEN /\ SReturn(o2.res)
                             /\ io' = [io EXCEPT !.keys = @ \cup o1.keys \cup o2.keys,
                                                 !.fault = o2.fault,
                                                 !.leaked = @ \cup o2.leaked,
                                                 !.signer_urls = @ \cup ({main_timestamp} \ {NoUrl})]
                        ELSE \E built2 \in BOOLEAN :
                               /\ io' = [io EXCEPT
                                          !.keys = @ \cup o1.keys \cup o2.keys,
                                          !.fault = IF built2 THEN "none" ELSE "malformed",
                                          !.leaked = IF built2 THEN @ ELSE @ \cup {"cert", "key"},
                                          !.signer_urls = @ \cup ({main_timestamp, cawg_timestamp} \ {NoUrl})]
                               /\ IF built2
                                  THEN /\ spc' = "source"
                                       /\ UNCHANGED sret
                                  ELSE SReturn(ErrOperation)
  /\ UNCHANGED <<scfg, surl, skey, manifest, builder, checked, assetVars, outsideSign>>

\* sign.rs 89-106 and 131-147: a Stream source on the synchronous path is
\* sniffed and handed to builder.sign, which reads it to its end and
\* writes an output of a length of its own.
SignStream ==
  /\ spc = "source"
  /\ scfg.entry = "sign_c2pa"
  /\ ~scfg.cawg
  /\ scfg.source.variant = "Stream"
  /\ \E n \in 0..Min(SniffLen, scfg.source.len), rewound \in BOOLEAN,
        created \in BOOLEAN, ok \in BOOLEAN :
       LET start == IF rewound THEN 0 ELSE n IN
       IF scfg.output = "Path" /\ ~created
       THEN /\ SReturn(ErrIo)
            /\ spos' = start
            /\ UNCHANGED io
       ELSE IF ok
       THEN \E out \in 0..(MaxLimit + 1) :
              /\ spos' = scfg.source.len
              /\ io' = [io EXCEPT !.out = out, !.sign_calls = @ + 1]
              /\ SReturn(IF scfg.output = "Memory" THEN OkSome ELSE OkNone)
       ELSE \E p \in start..scfg.source.len :
              /\ spos' = p
              /\ io' = [io EXCEPT !.sign_calls = @ + 1]
              /\ SReturn(ErrOperation)
  /\ UNCHANGED <<scfg, surl, skey, manifest, builder, checked>>
  /\ UNCHANGED <<asset, limits, apc, total, fs, aret, outsideSign>>

\* sign.rs 60 and 109, verify.rs 58: the call of asset_to_temp_path.
CallMaterialize ==
  /\ spc = "source"
  /\ IF scfg.entry = "sign_c2pa"
     THEN scfg.cawg \/ scfg.source.variant # "Stream"
     ELSE scfg.entry = "verify_c2pa" /\ scfg.source.variant # "Stream"
  /\ asset' = scfg.source
  /\ limits' = [max_in_memory_asset_size |-> scfg.limits.max_in_memory_asset_size,
                max_stream_copy_size |-> scfg.limits.max_stream_copy_size]
  /\ apc' = "start"
  /\ spc' = "materialize"
  /\ UNCHANGED <<scfg, surl, skey, manifest, builder, checked, io, sret>>
  /\ UNCHANGED <<spos, total, fs, aret, outsideSign>>

\* sign.rs 61-78 (CAWG) and 110-128: after asset_to_temp_path the file is
\* signed; for OutputTarget::Memory the signed file is read back and its
\* length compared with limits.max_in_memory_output_size.
SignFile ==
  /\ spc = "materialize"
  /\ apc = "done"
  /\ scfg.entry = "sign_c2pa"
  /\ IF aret.kind # "Ok"
     THEN /\ SReturn(aret)
          /\ UNCHANGED io
     ELSE IF scfg.output = "Path"
     THEN \E ok \in BOOLEAN :
            /\ io' = [io EXCEPT !.sign_calls = @ + 1]
            /\ SReturn(IF ok THEN OkNone ELSE ErrOperation)
     ELSE \E tmp \in BOOLEAN, ok \in BOOLEAN, meta_ok \in BOOLEAN, read_ok \in BOOLEAN,
             out \in 0..(MaxLimit + 1) :
            IF ~tmp
            THEN /\ SReturn(ErrIo)
                 /\ UNCHANGED io
            ELSE IF ~ok
            THEN /\ io' = [io EXCEPT !.sign_calls = @ + 1]
                 /\ SReturn(ErrOperation)
            ELSE /\ io' = [io EXCEPT !.out = out, !.sign_calls = @ + 1]
                 /\ IF scfg.cawg
                    THEN SReturn(IF ~read_ok THEN ErrIo
                                 ELSE IF out > scfg.limits.max_in_memory_output_size
                                 THEN ErrOutputTooLarge
                                 ELSE OkSome)
                    ELSE SReturn(IF ~meta_ok THEN ErrIo
                                 ELSE IF out > scfg.limits.max_in_memory_output_size
                                 THEN ErrOutputTooLarge
                                 ELSE IF ~read_ok THEN ErrIo
                                 ELSE OkSome)
  /\ UNCHANGED <<scfg, surl, skey, manifest, builder, checked, assetVars, outsideSign>>

\* verify.rs 49-61: a Stream source is read by Reader::from_stream, to its
\* end when the read succeeds; any other source is materialised and read
\* by Reader::from_file.
VerifyRead ==
  /\ scfg.entry = "verify_c2pa"
  /\ IF scfg.source.variant = "Stream"
     THEN /\ spc = "source"
          /\ \E ok \in BOOLEAN :
               IF ok
               THEN /\ spos' = scfg.source.len
                    /\ SReturn(OkReport)
               ELSE \E p \in 0..scfg.source.len :
                      /\ spos' = p
                      /\ SReturn(ErrOperation)
     ELSE /\ spc = "materialize"
          /\ apc = "done"
          /\ UNCHANGED spos
          /\ IF aret.kind # "Ok"
             THEN SReturn(aret)
             ELSE \E ok \in BOOLEAN : SReturn(IF ok THEN OkReport ELSE ErrOperation)
  /\ UNCHANGED <<scfg, surl, skey, manifest, builder, checked, io>>
  /\ UNCHANGED <<asset, limits, apc, total, fs, aret, outsideSign>>

\* bmff.rs 24-31.
BmffSetRemote ==
  /\ spc = "bmff_remote"
  /\ SetRemoteUrl("bmff_sign")
  /\ UNCHANGED <<scfg, surl, skey, manifest, io, assetVars, outsideSign>>

\* bmff.rs 33-66: the output directory is created and every init segment
\* the glob matches is signed with its fragments.
BmffSign ==
  /\ spc = "bmff_sign"
  /\ \E dir_ok \in BOOLEAN, k \in 0..MaxSegments, ok \in BOOLEAN :
       IF ~dir_ok
       THEN /\ SReturn(ErrIo)
            /\ UNCHANGED io
       ELSE /\ io' = [io EXCEPT !.sign_calls = @ + k]
            /\ SReturn(IF ok THEN OkRet ELSE IF k = 0 THEN ErrIo ELSE ErrOperation)
  /\ UNCHANGED <<scfg, surl, skey, manifest, builder, checked, assetVars, outsideSign>>

NextSign ==
  \/ PrepareManifest
  \/ SetupBuilder
  \/ ResolveSigner
  \/ CreateCawgSigner
  \/ SignStream
  \/ CallMaterialize
  \/ Dispatch
  \/ TempDir
  \/ BytesWrite
  \/ StreamSniff
  \/ StreamCreate
  \/ CopyChunk
  \/ SignFile
  \/ VerifyRead
  \/ BmffSetRemote
  \/ BmffSign

SpecSign == InitSign /\ [][NextSign]_vars

\* C12: for verify_c2pa and sign_c2pa on a Stream source longer than
\* limits.max_stream_copy_size the call does not succeed, and the stream's
\* reader is never advanced more than one chunk beyond the cap.
C12_StreamCapAtEntryPoints ==
  (scfg.source.variant = "Stream"
     /\ scfg.source.len > scfg.limits.max_stream_copy_size) =>
    /\ sret.kind # "Ok"
    /\ spos <= scfg.limits.max_stream_copy_size + BufLen

\* C13: whenever sign_c2pa with OutputTarget::Memory returns Ok(Some(buf)),
\* the length of buf is at most limits.max_in_memory_output_size, for every
\* source variant and on both signing paths.
C13_MemoryOutputWithinCap ==
  (scfg.entry = "sign_c2pa" /\ scfg.output = "Memory" /\ sret = OkSome) =>
    io.out <= scfg.limits.max_in_memory_output_size

C19_DigicertPassesValidation ==
  (/\ surl.timestamper.kind = "Digicert"
   /\ surl.manifest_definition \in {"None", "object"}
   /\ dns["timestamp.digicert.com"] = [ok |-> TRUE, addrs |-> {V4(93, 184, 216, 34)}]
   /\ spc # "prepare") =>
    /\ resolve(surl.timestamper).scheme = "https"
    /\ manifest.ta_url = resolve(surl.timestamper)

\* C20: on POSIX the key file of a filesystem signer that has a group or
\* other permission bit set is never read, whether it is the key of the
\* primary signer or of the separate CAWG signer.
C20_InsecureKeyNeverRead ==
  skey.unix =>
    /\ (skey.signer.kind = "Local" /\ skey.signer.mode % 64 # 0) =>
         "main" \notin io.keys
    /\ (skey.cawg_signer.kind = "Separate" /\ skey.cawg_signer.signer.kind = "Local"
          /\ skey.cawg_signer.signer.mode % 64 # 0) =>
         "cawg" \notin io.keys

\* C28: a panic of the operation passed to with_c2pa_settings does not
\* poison the settings mutex: from the start of the operation to the return
\* of the call the poison flag keeps its value, and the return that carries
\* the internal-fault error leaves the mutex free.
C28_OperationPanicDoesNotPoison ==
  [][\A t \in Threads :
       (pc[t] \in {"run", "restore", "ret"} /\ pc'[t] # pc[t]) =>
         /\ poisoned' = poisoned
         /\ pc'[t] = "idle" => lockHolder' = 0]_vars

\* C28 witness: a call returned the internal-fault error and, the mutex
\* not being poisoned, another thread's call holds the lock and runs its
\* operation.
C28_Witness ==
  \E t \in Threads, u \in Threads :
    /\ u # t
    /\ ret[t] = ErrAdapterPanicked
    /\ ~poisoned
    /\ lockHolder = u
    /\ pc[u] = "run"

\* C25: a stream of at most max_bytes bytes is never refused for its size,
\* whatever the sizes of the reads; while copy_with_limits copies, and when
\* it has returned Ok after the flush, the file holds exactly the bytes
\* read, in the order read, and total_bytes is their number: for a stream
\* copied from its start, all bytes of the stream.
C25_CopiesWholeStream ==
  asset.variant = "Stream" =>
    /\ asset.len <= limits.max_stream_copy_size => aret # ErrStreamLimit
    /\ (apc = "copy" \/ aret = OkTemp) =>
         /\ fs.data = Bytes(spos - total, total)
         /\ Len(fs.data) = total
    /\ aret = OkTemp =>
         /\ spos = asset.len
         /\ asset.hint => fs.data = Bytes(0, asset.len)

\* C25 witness: a stream of exactly max_bytes bytes, longer than one
\* buffer, was copied whole and accepted.
C25_Witness ==
  /\ asset.variant = "Stream"
  /\ asset.len = limits.max_stream_copy_size
  /\ asset.len > BufLen
  /\ aret = OkTemp
  /\ fs.data = Bytes(0, asset.len)


\* C21: in every key-loading path of the CAWG signer the certificate and
\* private-key buffers are overwritten with zero bytes before they are
\* dropped, on every exit path, the error of signer construction included:
\* no buffer is ever dropped with its content.
C21_BuffersZeroedOnEveryExit ==
  io.leaked = {}

\* The messages whose format string interpolates the path of the file or
\* the name of the environment variable.
MessagesNamingSource ==
  {ErrSignerEnvVar.msg, ErrInsecureKey.msg, ErrEnvVar.msg}

\* C22: when a certificate or key file is missing or a named environment
\* variable is unset, the signing call fails with an error of kind
\* Configuration whose message contains the path or the variable name, on
\* the primary signer path and on the CAWG signer paths alike.
C22_MissingSourceIsConfigError ==
  (spc = "done" /\ io.fault \in {"missing_file", "unset_var"}) =>
    /\ sret.kind = "Config"
    /\ sret.msg \in MessagesNamingSource

\* C30: no timestamp-authority URL is handed to a signer constructor, for
\* the primary signer or for the CAWG identity signer, unless
\* validate_external_http_url has returned Ok for that URL earlier in the
\* same call; the URL of the CAWG identity's own timestamper included.
C30_SignerUrlsValidated ==
  \A u \in io.signer_urls :
    \E c \in checked : c.url = u /\ c.result = UrlOk


(***************************************************************************)
(* SpecVerify: the tail of the closure of verify_c2pa                      *)
(* (adapters/c2pa/engine/verify.rs 92-205), from the point where the       *)
(* Reader is built, with validate_cawg (adapters/c2pa/cawg.rs 235-286).    *)
(***************************************************************************)
MaxStatuses == 2

\* A status code, as its dot-separated segments.
Codes ==
  { <<"claimSignature", "validated">>,
    <<"timeStamp", "warning">>,
    <<"assertion", "dataHash", "mismatch">> }

\* The codes the CAWG validator of the library logs for an identity
\* assertion that validates, and for one that does not.
CawgValidated == <<"cawg", "identity", "validated">>
CawgMismatch == <<"cawg", "identity", "sig_mismatch">>

\* The status lists of the library's ValidationResults: success,
\* informational and failure of the active manifest, and the statuses of
\* the ingredient deltas.
Sections == {"success", "informational", "failure", "ingredient"}

Statuses == [section : Sections, code : Codes, passed : BOOLEAN]

StatusLists == UNION {[1..n -> Statuses] : n \in 0..MaxStatuses}

\* config.cawg: None, or Some(CawgVerifyOptions) when the feature "cawg" is
\* built (lib.rs 93-102).
VerifyConfigs ==
  {[cawg |-> FALSE, validate |-> FALSE, require_valid_identity |-> FALSE]}
  \cup [cawg : {TRUE}, validate : BOOLEAN, require_valid_identity : BOOLEAN]

\* The Reader: whether validation_results() is Some, the statuses in it,
\* and what the asset holds as CAWG identity assertion.
Readers ==
  [some : {TRUE}, statuses : StatusLists, identity : {"absent", "valid", "invalid"}]
  \cup [some : {FALSE}, statuses : {<<>>}, identity : {"absent", "valid", "invalid"}]

ErrVerificationFailed == [kind |-> "VerificationFailed", msg |-> "Verification failed"]
ErrNoResults == [kind |-> "Config", msg |-> "No validation results available"]

InitVerify ==
  /\ InitSettings
  /\ InitAssetIdle
  /\ InitUrlIdle
  /\ InitSignIdle
  /\ InitSniffIdle
  /\ vcfg \in VerifyConfigs
  /\ reader \in Readers
  /\ vpc = "statuses"
  /\ vout = [status |-> NoStatuses, verdict |-> None, cawg |-> NoCawgVerification]
  /\ vret = NoRet

\* The statuses of one section, in the order the library holds them.
SectionOf(statuses, section) ==
  SelectSeq(statuses, LAMBDA st : st.section = section)

\* verify.rs 92-154: all_statuses, pushed section by section; the section
\* is not part of the ValidationStatus the engine builds.
all_statuses(statuses) ==
  LET ordered == SectionOf(statuses, "success") \o SectionOf(statuses, "informational")
                 \o SectionOf(statuses, "failure") \o SectionOf(statuses, "ingredient")
  IN [i \in 1..Len(ordered) |-> [code |-> ordered[i].code, passed |-> ordered[i].passed]]

\* s.code.contains("warning"): no segment of the codes above holds the
\* word as a proper part.
contains_warning(code) == \E i \in 1..Len(code) : code[i] = "warning"

Verdict_warning_first(statuses) ==
  IF \E i \in 1..Len(statuses) : contains_warning(statuses[i].code) THEN "Warning"
  ELSE IF \E i \in 1..Len(statuses) : ~statuses[i].passed THEN "Rejected"
  ELSE "Allowed"

\* verify.rs 156-164: the verdict of a status list.
Verdict(statuses) ==
  IF \E i \in 1..Len(statuses) : ~statuses[i].passed THEN "Rejected"
  ELSE IF \E i \in 1..Len(statuses) : contains_warning(statuses[i].code) THEN "Warning"
  ELSE "Allowed"

\* verify.rs 92-154: status_vec = reader.validation_results().map(..).
CollectStatuses ==
  /\ vpc = "statuses"
  /\ vout' = [vout EXCEPT !.status =
                 IF reader.some
                 THEN [some |-> TRUE, list |-> all_statuses(reader.statuses)]
                 ELSE NoStatuses]
  /\ vpc' = "verdict"
  /\ UNCHANGED <<vcfg, reader, vret, outsideVerify>>

\* verify.rs 156-164: verdict = status_vec.as_ref().map(..).
MapVerdict ==
  /\ vpc = "verdict"
  /\ vout' = [vout EXCEPT !.verdict = IF vout.status.some
                                      THEN Verdict(vout.status.list)
                                      ELSE None]
  /\ vpc' = "cawg"
  /\ UNCHANGED <<vcfg, reader, vret, outsideVerify>>

\* cawg.rs 252-271: code == "cawg.identity" || code.starts_with("cawg.identity.").
is_cawg_identity(code) ==
  Len(code) >= 2 /\ code[1] = "cawg" /\ code[2] = "identity"

\* cawg.rs 249-279: cawg_present and cawg_valid from the success and the
\* failure statuses of the active manifest.
cawg_verification(statuses) ==
  LET in_success == \E i \in 1..Len(statuses) :
                      statuses[i].section = "success" /\ is_cawg_identity(statuses[i].code)
      in_failure == \E i \in 1..Len(statuses) :
                      statuses[i].section = "failure" /\ is_cawg_identity(statuses[i].code)
  IN [some |-> TRUE, present |-> in_success \/ in_failure, valid |-> ~in_failure]

\* post_validate_async(&CawgValidator {}) of the library: the statuses it
\* adds to the validation results for the identity assertion of the asset.
post_validate(rd) ==
  IF ~rd.some \/ rd.identity = "absent" THEN rd
  ELSE IF rd.identity = "valid"
  THEN [rd EXCEPT !.statuses = Append(@, [section |-> "success", code |-> CawgValidated,
                                          passed |-> TRUE])]
  ELSE [rd EXCEPT !.statuses = Append(@, [section |-> "failure", code |-> CawgMismatch,
                                          passed |-> FALSE])]

\* verify.rs 166-176 with validate_cawg (cawg.rs 235-286): the validation
\* runs when config.cawg is Some and its validate flag is set.
ValidateCawg ==
  /\ vpc = "cawg"
  /\ IF vcfg.cawg /\ vcfg.validate
     THEN \E validated \in BOOLEAN :
            IF ~validated
            THEN /\ vret' = ErrOperation
                 /\ vpc' = "done"
                 /\ UNCHANGED <<reader, vout>>
            ELSE /\ reader' = post_validate(reader)
                 /\ IF ~reader.some
                    THEN /\ vret' = ErrNoResults
                         /\ vpc' = "done"
                         /\ UNCHANGED vout
                    ELSE /\ vout' = [vout EXCEPT !.cawg =
                                       cawg_verification(post_validate(reader).statuses)]
                         /\ vpc' = "require"
                         /\ UNCHANGED vret
     ELSE /\ vpc' = "require"
          /\ UNCHANGED <<reader, vout, vret>>
  /\ UNCHANGED <<vcfg, outsideVerify>>

\* verify.rs 178-205: the requirement is applied to the result of the
\* validation, when there is one; then Ok(VerificationResult {..}).
RequireIdentity ==
  /\ vpc = "require"
  /\ vret' = IF /\ vcfg.cawg
                /\ vout.cawg.some
                /\ vcfg.require_valid_identity
                /\ (~vout.cawg.present \/ ~vout.cawg.valid)
             THEN ErrVerificationFailed
             ELSE OkReport
  /\ vpc' = "done"
  /\ UNCHANGED <<vcfg, reader, vout, outsideVerify>>

NextVerify ==
  \/ CollectStatuses
  \/ MapVerdict
  \/ ValidateCawg
  \/ RequireIdentity

SpecVerify == InitVerify /\ [][NextVerify]_vars

\* C24: when require_valid_identity is true, verify_c2pa fails with
\* VerificationFailed whenever the CAWG identity assertion of the asset is
\* missing or invalid, for every value of the validate flag.
C24_RequiredIdentityEnforced ==
  (vpc = "done" /\ vcfg.cawg /\ vcfg.require_valid_identity
     /\ reader.identity \in {"absent", "invalid"}) =>
    vret = ErrVerificationFailed

\* C26: the verdict is a function of the collected statuses only: Rejected
\* if any status has passed = false, otherwise Warning if any code contains
\* "warning", otherwise Allowed, also for the empty list; it is absent
\* exactly when the library returns no validation results.
C26_VerdictFromStatuses ==
  vpc \in {"cawg", "require", "done"} =>
    /\ vout.verdict = None <=> ~reader.some
    /\ reader.some =>
         LET st == vout.status.list
             rejected == \E i \in 1..Len(st) : ~st[i].passed
             warning == \E i \in 1..Len(st) : \E j \in 1..Len(st[i].code) :
                          st[i].code[j] = "warning"
         IN /\ Len(st) = Len(reader.statuses) \/ Len(st) + 1 = Len(reader.statuses)
            /\ rejected => vout.verdict = "Rejected"
            /\ (~rejected /\ warning) => vout.verdict = "Warning"
            /\ (~rejected /\ ~warning) => vout.verdict = "Allowed"

C26_Witness ==
  /\ vpc = "done"
  /\ vret = OkReport
  /\ vout.verdict = "Rejected"
  /\ \E i \in 1..Len(vout.status.list) :
       vout.status.list[i].passed /\ contains_warning(vout.status.list[i].code)


(***************************************************************************)
(* SpecSniff: detect_extension_from_bytes                                  *)
(* (adapters/c2pa/content_detection.rs 1-93), the detector that            *)
(* asset_utils.rs imports.  A buffer is a sequence of bytes 0..255; the    *)
(* byte strings of the source are written as their ASCII codes.            *)
(***************************************************************************)
MaxPad == 4

\* The byte strings the detector compares with, as ASCII codes.
Magic ==
  [JPEG |-> <<255, 216, 255>>,
   PNG |-> <<137, 80, 78, 71, 13, 10, 26, 10>>,
   GIF87a |-> <<71, 73, 70, 56, 55, 97>>,
   GIF89a |-> <<71, 73, 70, 56, 57, 97>>,
   RIFF |-> <<82, 73, 70, 70>>,
   WEBP |-> <<87, 69, 66, 80>>,
   WAVE |-> <<87, 65, 86, 69>>,
   AVI |-> <<65, 86, 73, 32>>,
   TIFF_II |-> <<73, 73, 42, 0>>,
   TIFF_MM |-> <<77, 77, 0, 42>>,
   ftyp |-> <<102, 116, 121, 112>>,
   heic |-> <<104, 101, 105, 99>>,
   heif |-> <<104, 101, 105, 102>>,
   avif |-> <<97, 118, 105, 102>>,
   mp42 |-> <<109, 112, 52, 50>>,
   isom |-> <<105, 115, 111, 109>>,
   mp41 |-> <<109, 112, 52, 49>>,
   dash |-> <<100, 97, 115, 104>>,
   qt |-> <<113, 116, 32, 32>>,
   M4A |-> <<77, 52, 65, 32>>,
   m4af |-> <<109, 52, 97, 102>>,
   PDF |-> <<37, 80, 68, 70, 45>>,
   svg_tag |-> <<60, 115, 118, 103>>,
   ID3 |-> <<73, 68, 51>>]

\* data.len() >= sig.len() && &data[..sig.len()] == sig
starts_with(d, sig) == Len(d) >= Len(sig) /\ SubSeq(d, 1, Len(sig)) = sig

\* &data[from..from + sig.len()] == sig, the length being checked before
slice_eq(d, from, sig) == SubSeq(d, from + 1, from + Len(sig)) = sig

\* A continuation byte of UTF-8.
is_cont(d, i) == i <= Len(d) /\ d[i] >= 128 /\ d[i] <= 191

\* std::str::from_utf8(head).is_ok(), from position i on.
RECURSIVE valid_utf8(_, _)
valid_utf8(d, i) ==
  IF i > Len(d) THEN TRUE
  ELSE IF d[i] < 128 THEN valid_utf8(d, i + 1)
  ELSE IF d[i] >= 194 /\ d[i] <= 223
  THEN is_cont(d, i + 1) /\ valid_utf8(d, i + 2)
  ELSE IF d[i] >= 224 /\ d[i] <= 239
  THEN /\ is_cont(d, i + 1) /\ is_cont(d, i + 2)
       /\ d[i] = 224 => d[i + 1] >= 160
       /\ d[i] = 237 => d[i + 1] <= 159
       /\ valid_utf8(d, i + 3)
  ELSE IF d[i] >= 240 /\ d[i] <= 244
  THEN /\ is_cont(d, i + 1) /\ is_cont(d, i + 2) /\ is_cont(d, i + 3)
       /\ d[i] = 240 => d[i + 1] >= 144
       /\ d[i] = 244 => d[i + 1] <= 143
       /\ valid_utf8(d, i + 4)
  ELSE FALSE

\* s.to_ascii_lowercase()
to_ascii_lowercase(d) ==
  [i \in 1..Len(d) |-> IF d[i] >= 65 /\ d[i] <= 90 THEN d[i] + 32 ELSE d[i]]

\* s.contains(pat)
contains(d, pat) ==
  \E i \in 1..Len(d) : i + Len(pat) - 1 <= Len(d) /\ SubSeq(d, i, i + Len(pat) - 1) = pat

\* content_detection.rs 73-81: the SVG heuristic on the first 512 bytes.
is_svg(d) ==
  /\ Len(d) >= 5
  /\ d[1] = 60
  /\ LET head == SubSeq(d, 1, Min(512, Len(d)))
     IN valid_utf8(head, 1) /\ contains(to_ascii_lowercase(head), Magic.svg_tag)

\* content_detection.rs 39-63: the brand at offset 8, when the buffer has
\* 16 bytes or more; mp4 otherwise and for the other brands.
ftyp_extension(d) ==
  LET brand == SubSeq(d, 9, 12)
  IN IF Len(d) < 16 THEN "mp4"
     ELSE IF brand = Magic.heic THEN "heic"
     ELSE IF brand = Magic.heif THEN "heif"
     ELSE IF brand = Magic.avif THEN "avif"
     ELSE IF brand \in {Magic.mp42, Magic.isom, Magic.mp41, Magic.dash} THEN "mp4"
     ELSE IF brand = Magic.qt THEN "mov"
     ELSE IF brand \in {Magic.M4A, Magic.m4af} THEN "m4a"
     ELSE "mp4"

\* content_detection.rs 1-93.  Some(ext) is the string ext.
detect_extension_from_bytes(d) ==
  IF starts_with(d, Magic.JPEG) THEN "jpg"
  ELSE IF starts_with(d, Magic.PNG) THEN "png"
  ELSE IF starts_with(d, Magic.GIF87a) \/ starts_with(d, Magic.GIF89a) THEN "gif"
  ELSE IF Len(d) >= 12 /\ slice_eq(d, 0, Magic.RIFF) /\ slice_eq(d, 8, Magic.WEBP) THEN "webp"
  ELSE IF Len(d) >= 12 /\ slice_eq(d, 0, Magic.RIFF) /\ slice_eq(d, 8, Magic.WAVE) THEN "wav"
  ELSE IF Len(d) >= 12 /\ slice_eq(d, 0, Magic.RIFF) /\ slice_eq(d, 8, Magic.AVI) THEN "avi"
  ELSE IF starts_with(d, Magic.TIFF_II) \/ starts_with(d, Magic.TIFF_MM) THEN "tiff"
  ELSE IF Len(d) >= 12 /\ slice_eq(d, 4, Magic.ftyp) THEN ftyp_extension(d)
  ELSE IF starts_with(d, Magic.PDF) THEN "pdf"
  ELSE IF is_svg(d) THEN "svg"
  ELSE IF starts_with(d, Magic.ID3) THEN "mp3"
  ELSE IF Len(d) >= 2 /\ d[1] = 255 /\ (d[2] \div 32) % 8 = 7 THEN "mp3"
  ELSE None

\* The buffers detection is called on: the headers of the formats, with
\* and without bytes after them, cut short by one byte, and buffers that
\* carry no signature.
Zeros(n) == [i \in 1..n |-> 0]

Brands == {Magic.heic, Magic.heif, Magic.avif, Magic.mp42, Magic.isom, Magic.mp41, Magic.dash, Magic.qt, Magic.M4A, Magic.m4af, <<122, 122, 122, 122>>}

Headers ==
  {Magic.JPEG, Magic.PNG, Magic.GIF87a, Magic.GIF89a, Magic.TIFF_II, Magic.TIFF_MM, Magic.PDF, Magic.ID3,
   <<0, 0, 1, 0>>, <<66, 77>>, <<255, 251>>, <<255, 224>>,
   <<60, 115, 118, 103, 62>>, <<60, 83, 86, 71, 32>>, <<60, 63, 120, 109, 108, 63, 62, 60, 115, 118, 103>>, <<60, 104, 116, 109, 108>>,
   <<60, 115, 118, 103, 255>>, <<60, 115, 118, 103, 195, 169>>}
  \cup {Magic.RIFF \o Zeros(4) \o sub : sub \in {Magic.WEBP, Magic.WAVE, Magic.AVI, Magic.RIFF}}
  \cup {<<0, 0, 0, 24>> \o Magic.ftyp \o brand : brand \in Brands}

Buffers ==
  {h \o Zeros(n) : h \in Headers, n \in 0..MaxPad}
  \cup {SubSeq(h, 1, Len(h) - 1) : h \in Headers}
  \cup {<<>>, [i \in 1..12 |-> i]}

InitSniff ==
  /\ InitSettings
  /\ InitAssetIdle
  /\ InitUrlIdle
  /\ InitSignIdle
  /\ InitVerifyIdle
  /\ data \in Buffers
  /\ dpc = "call"
  /\ dret = NoRet

Detect ==
  /\ dpc = "call"
  /\ dret' = detect_extension_from_bytes(data)
  /\ dpc' = "done"
  /\ UNCHANGED <<data, outsideSniff>>

NextSniff == Detect

SpecSniff == InitSniff /\ [][NextSniff]_vars

\* The minimal valid header of every signature of the table and its tag.
SignatureTable ==
  { [header |-> Magic.JPEG, tag |-> "jpg"], [header |-> Magic.PNG, tag |-> "png"],
    [header |-> Magic.GIF87a, tag |-> "gif"], [header |-> Magic.GIF89a, tag |-> "gif"],
    [header |-> Magic.RIFF \o Zeros(4) \o Magic.WEBP, tag |-> "webp"],
    [header |-> Magic.RIFF \o Zeros(4) \o Magic.WAVE, tag |-> "wav"],
    [header |-> Magic.RIFF \o Zeros(4) \o Magic.AVI, tag |-> "avi"],
    [header |-> Magic.TIFF_II, tag |-> "tiff"], [header |-> Magic.TIFF_MM, tag |-> "tiff"],
    [header |-> <<0, 0, 0, 24>> \o Magic.ftyp \o Magic.isom, tag |-> "mp4"],
    [header |-> Magic.PDF, tag |-> "pdf"],
    [header |-> <<60, 115, 118, 103, 62>>, tag |-> "svg"],
    [header |-> <<0, 0, 1, 0>>, tag |-> "ico"],
    [header |-> <<66, 77>>, tag |-> "bmp"],
    [header |-> Magic.ID3, tag |-> "mp3"], [header |-> <<255, 251>>, tag |-> "mp3"] }

\* C23: detection returns the expected tag on the minimal valid header of
\* every signature of the table (JPEG, PNG, GIF, RIFF/WEBP, RIFF/WAVE,
\* RIFF/AVI, TIFF, ISO-BMFF, PDF, SVG, ICO, BMP, MP3), and None on a buffer
\* that carries no signature.
C23_TableDetected ==
  dpc = "done" =>
    /\ \A row \in SignatureTable : data = row.header => dret = row.tag
    /\ data \in {<<>>, [i \in 1..12 |-> i]} => dret = None

\* The tag of each brand of the table.
BrandTag(brand) ==
  IF brand = Magic.heic THEN "heic"
  ELSE IF brand = Magic.heif THEN "heif"
  ELSE IF brand = Magic.avif THEN "avif"
  ELSE IF brand \in {Magic.mp42, Magic.isom, Magic.mp41, Magic.dash} THEN "mp4"
  ELSE IF brand = Magic.qt THEN "mov"
  ELSE IF brand \in {Magic.M4A, Magic.m4af} THEN "m4a"
  ELSE "mp4"

\* C27: for every buffer with 'ftyp' at offset 4 and a brand at offset 8,
\* detection maps a brand of the table to its tag for every buffer length
\* of 12 bytes or more, and returns the default mp4 only for a brand that
\* is not in the table.
C27_BrandMappedAtEveryLength ==
  (dpc = "done" /\ Len(data) >= 12 /\ SubSeq(data, 5, 8) = Magic.ftyp) =>
    dret = BrandTag(SubSeq(data, 9, 12))


====
